---- MODULE Spec2Model ----
(***************************************************************************)
(* Model of custom_components/basestation/lib.py: the BasestationAPI       *)
(* session (stored BLE client handle, connect lock, cached state snapshot, *)
(* identity fields, subscriber list) driven by several asyncio call chains.*)
(* Each action is one run of a call chain between two suspension points    *)
(* (awaits): asyncio runs that stretch of code without interleaving.       *)
(***************************************************************************)
EXTENDS Integers, Sequences, FiniteSets, TLC

\* ------------------------------------------------------------ bounds
MaxFaults == 1
MaxRegs == 2
MaxCommands == 2

\* ------------------------------------------------- program constants
BLE_RETRY_ATTEMPTS == 3
CHANNEL_NUM_MIN == 1
CHANNEL_NUM_MAX == 16
SLEEPING == 0
AWAKE == 1
STANDBY == 2
AWAKE_AFTER_SLEEPING == 9
AWAKE_AFTER_STANDBY == 11
\* Python's None in an integer-typed field, and in a text-typed field.
None == -1
NoneText == "None"

PowerMembers == {SLEEPING, AWAKE, STANDBY, AWAKE_AFTER_SLEEPING, AWAKE_AFTER_STANDBY}

\* Two call chains, as in the host: the coordinator's poll and an entity's action.
Chains == {1, 2}
\* Handles name transport connections; 0 is "no client" (self._client is None).
Handles == 1..(Cardinality(Chains) + MaxFaults + 1)

\* What the transport may return for a characteristic (environment inputs):
\* the first byte of the power characteristic, the bytes of the channel
\* characteristic, the bytes of each text characteristic.
DevPowerBytes == {AWAKE, STANDBY, 255}
DevChannelBytes == {<<1>>, <<17>>}
\* Every member value of the power byte, and two bytes that are none.
AllPowerBytes == PowerMembers \cup {3, 255}
DevTexts == {"text"}
\* Arguments the callers may pass.
PowerArgs == {AWAKE, SLEEPING}
ChannelArgs == {CHANNEL_NUM_MIN - 1, CHANNEL_NUM_MIN, CHANNEL_NUM_MAX, CHANNEL_NUM_MAX + 1}
AllChannelArgs == (CHANNEL_NUM_MIN - 1)..(CHANNEL_NUM_MAX + 1)
\* Lengths of the commands list of a direct _write_char call.
CommandCounts == 1..MaxCommands
\* Subscriber functions: a plain observer, and a one-shot observer that calls
\* its own unsubscribe handle when it is invoked.
Fns == {"observer", "once"}
ErrKinds == {"transient", "fatal"}
WriteOps == {"set_power_state", "set_channel", "identify"}

VARIABLES
    client,         \* self._client: 0 or a handle
    lock,           \* self._connect_lock: 0 or the chain holding it
    waiters,        \* FIFO of chains suspended in lock.acquire()
    callbacks,      \* self._callbacks: sequence of [fn, reg]
    state,          \* self._state
    model_id, manufacturer, serial_number,
    connected,      \* transport: handles whose is_connected is true
    ch,             \* per call chain: operation, position, locals
    issued,         \* unsubscribe handles handed out: reg -> fn
    unsub,          \* record of the last unsubscribe call (observation)
    estSince,       \* establish_connection calls since the session last had no live stored handle
    serial,         \* TRUE when the host starts an operation only after the previous one has ended
    nFaults         \* transport faults and cancellations so far

vars == <<client, lock, waiters, callbacks, state, model_id, manufacturer,
          serial_number, connected, ch, issued, unsub, estSince, serial, nFaults>>

\* ------------------------------------------------------ pure helpers
RECURSIVE IntFromBytes(_)
\* int.from_bytes(b) with the default byteorder "big".
IntFromBytes(b) ==
    IF b = <<>> THEN 0
    ELSE 256 * IntFromBytes(SubSeq(b, 1, Len(b) - 1)) + b[Len(b)]

\* BasestationStatePower(byte) raises ValueError unless byte is a member value.
PowerDecodes(b) == b \in PowerMembers

\* No unsubscribe call observed.
NoUnsub == [reg |-> 0, before |-> <<>>, raised |-> FALSE]

EmptyState == [power |-> None, channel |-> None, sw_version |-> NoneText]

IdleChain ==
    [op |-> "none", pc |-> "idle", arg |-> None, char |-> "none", attempt |-> 0,
     exc |-> "none", hnd |-> 0, power |-> None, channel |-> None, sw |-> NoneText,
     result |-> "none", closes |-> 0, commits |-> 0, fired |-> FALSE,
     notified |-> <<>>, regs0 |-> <<>>, quiet |-> TRUE, state0 |-> EmptyState,
     left |-> 0, cleanup |-> FALSE, peerRead |-> FALSE]

\* The whole program state as one record, so that the code's nested calls
\* compose as functions from state to state.
S ==
    [client |-> client, lock |-> lock, waiters |-> waiters, callbacks |-> callbacks,
     state |-> state, model_id |-> model_id, manufacturer |-> manufacturer,
     serial_number |-> serial_number, connected |-> connected,
     ch |-> ch, unsub |-> unsub, estSince |-> estSince, nFaults |-> nFaults]

Set(r) ==
    /\ client' = r.client
    /\ lock' = r.lock
    /\ waiters' = r.waiters
    /\ callbacks' = r.callbacks
    /\ state' = r.state
    /\ model_id' = r.model_id
    /\ manufacturer' = r.manufacturer
    /\ serial_number' = r.serial_number
    /\ connected' = r.connected
    /\ ch' = r.ch
    /\ unsub' = r.unsub
    /\ estSince' = r.estSince
    /\ nFaults' = r.nFaults

\* ------------------------------------------------- subscriber list
RECURSIVE RemoveFirst(_, _)
\* list.remove(fn): drops the first entry whose function equals fn.
RemoveFirst(cbs, fn) ==
    IF cbs = <<>> THEN <<>>
    ELSE IF Head(cbs).fn = fn THEN Tail(cbs)
    ELSE <<Head(cbs)>> \o RemoveFirst(Tail(cbs), fn)

HasFn(cbs, fn) == \E i \in 1..Len(cbs) : cbs[i].fn = fn

\* What invoking one subscriber does to the list: the one-shot subscriber
\* calls its unsubscribe handle, i.e. self._callbacks.remove(callback).
OnInvoke(cbs, e) == IF e.fn = "once" THEN RemoveFirst(cbs, e.fn) ELSE cbs

RECURSIVE FireFrom(_, _, _, _)
\* The for loop of _fire_callbacks: a list iterator is an index into the live
\* list, compared with the list's current length before every item.
FireFrom(cbs, i, log, snap) ==
    IF i > Len(cbs) THEN [cbs |-> cbs, log |-> log]
    ELSE FireFrom(OnInvoke(cbs, cbs[i]), i + 1,
                  Append(log, [reg |-> cbs[i].reg, fn |-> cbs[i].fn, snap |-> snap]),
                  snap)

FireCallbacks(s, c) ==
    LET r == FireFrom(s.callbacks, 1, <<>>, s.state)
    IN  [s EXCEPT !.callbacks = r.cbs,
                  !.ch[c].fired = TRUE,
                  !.ch[c].regs0 = s.callbacks,
                  !.ch[c].notified = r.log]

\* ------------------------------------------------ lock and liveness
\* self._client and self._client.is_connected
Live(s) == s.client # 0 /\ s.client \in s.connected

LockFree(s) == s.lock = 0 /\ s.waiters = <<>>

\* Mutant of Release: the lock is freed but no waiter is woken.
ReleaseDropsWaiter(s) == [s EXCEPT !.lock = 0]

\* Mutant of Release: the lock stays with the chain that leaves it.
ReleaseKeeps(s) == s

\* asyncio.Lock.release(): the first waiter, if any, is the next holder.
Release(s) ==
    IF s.waiters = <<>> THEN [s EXCEPT !.lock = 0]
    ELSE [s EXCEPT !.lock = Head(s.waiters), !.waiters = Tail(s.waiters)]

Enqueue(s, c, where) ==
    [s EXCEPT !.waiters = Append(s.waiters, c), !.ch[c].pc = where]

\* ------------------------------------------------ operation results
\* The operation of chain c returns (res = "ok") or raises (any other res).
Finish(s, c, res) ==
    [s EXCEPT !.ch[c].pc = "idle", !.ch[c].result = res, !.ch[c].char = "none",
              !.ch[c].attempt = 0, !.ch[c].exc = "none", !.ch[c].hnd = 0,
              !.ch[c].power = None, !.ch[c].channel = None, !.ch[c].sw = NoneText,
              !.ch[c].left = 0]

\* Mutant of ShouldRetry: one attempt more than BLE_RETRY_ATTEMPTS.
ShouldRetryOneMore(s, c, kind) ==
    kind = "transient" /\ s.ch[c].attempt <= BLE_RETRY_ATTEMPTS

\* The retry decorator: another attempt only after a transient error and only
\* while attempts remain.
ShouldRetry(s, c, kind) == kind = "transient" /\ s.ch[c].attempt < BLE_RETRY_ATTEMPTS

\* Mutant of NewStateAfterWrite: set_channel forgets that the device wakes up.
NewStateChannelOnly(s, c) ==
    CASE s.ch[c].op = "set_power_state" -> [s.state EXCEPT !.power = s.ch[c].arg]
      [] s.ch[c].op = "set_channel" -> [s.state EXCEPT !.channel = s.ch[c].arg]
      [] OTHER -> [s.state EXCEPT !.power = AWAKE]

\* Mutant of NewStateAfterWrite: identify builds a new snapshot from nothing.
NewStateIdentifyResets(s, c) ==
    CASE s.ch[c].op = "set_power_state" -> [s.state EXCEPT !.power = s.ch[c].arg]
      [] s.ch[c].op = "set_channel" ->
            [s.state EXCEPT !.channel = s.ch[c].arg, !.power = AWAKE]
      [] OTHER -> [EmptyState EXCEPT !.power = AWAKE]

\* set_power_state / set_channel / identify after _write_char has returned.
NewStateAfterWrite(s, c) ==
    CASE s.ch[c].op = "set_power_state" -> [s.state EXCEPT !.power = s.ch[c].arg]
      [] s.ch[c].op = "set_channel" ->
            [s.state EXCEPT !.channel = s.ch[c].arg, !.power = AWAKE]
      [] OTHER -> [s.state EXCEPT !.power = AWAKE]

WriteDone(s, c) ==
    LET s1 == [s EXCEPT !.state = NewStateAfterWrite(s, c),
                        !.ch[c].commits = @ + 1]
    IN  Finish(FireCallbacks(s1, c), c, "ok")

\* Mutant of WriteRaise: the cache is updated and subscribers are told before
\* the error is passed on.
WriteRaiseAfterCommit(s, c, kind) ==
    IF ShouldRetry(s, c, kind) THEN [s EXCEPT !.ch[c].pc = "sleep", !.ch[c].exc = kind]
    ELSE Finish(FireCallbacks([s EXCEPT !.state = NewStateAfterWrite(s, c),
                                        !.ch[c].commits = @ + 1], c), c, kind)

\* _write_char raised kind out of its body and finally block.
WriteRaise(s, c, kind) ==
    IF ShouldRetry(s, c, kind) THEN [s EXCEPT !.ch[c].pc = "sleep", !.ch[c].exc = kind]
    ELSE Finish(s, c, kind)

\* Mutant of UpdateDone: the snapshot is replaced whatever the try block did.
UpdateDoneAlwaysCommits(s, c, kind) ==
    Finish([s EXCEPT !.state = [power |-> s.ch[c].power,
                                channel |-> s.ch[c].channel,
                                sw_version |-> s.ch[c].sw],
                     !.ch[c].commits = @ + 1,
                     !.ch[c].regs0 = s.callbacks], c, IF kind = "none" THEN "ok" ELSE kind)

\* update() after its finally block: the snapshot is replaced only when the
\* try block and the disconnect both ended without an exception.
UpdateDone(s, c, kind) ==
    IF kind = "none"
    THEN Finish([s EXCEPT !.state = [power |-> s.ch[c].power,
                                      channel |-> s.ch[c].channel,
                                      sw_version |-> s.ch[c].sw],
                          !.ch[c].commits = @ + 1,
                          !.ch[c].regs0 = s.callbacks], c, "ok")
    ELSE Finish(s, c, kind)

\* ------------------------------------------------------- disconnect
\* disconnect() has returned (outcome = "ok") or raised outcome.
AfterDisconnect(s, c, outcome) ==
    LET e == IF outcome # "ok" THEN outcome ELSE s.ch[c].exc
    IN  CASE s.ch[c].op = "disconnect" -> Finish(s, c, outcome)
          [] s.ch[c].op = "update" -> UpdateDone(s, c, e)
          [] s.ch[c].op = "write_char" ->
                IF e = "none" THEN Finish(s, c, "ok") ELSE WriteRaise(s, c, e)
          [] OTHER -> IF e = "none" THEN WriteDone(s, c) ELSE WriteRaise(s, c, e)

\* disconnect() with the lock held, up to its await of client.disconnect().
DisconnectBody(s, c) ==
    LET h == s.client
        s1 == [s EXCEPT !.client = 0,
                        !.estSince = IF Live(s) THEN 0 ELSE @]
    IN  IF h # 0 /\ h \in s.connected
        THEN [s1 EXCEPT !.ch[c].pc = "disc_close", !.ch[c].hnd = h,
                        !.ch[c].closes = @ + 1]
        ELSE AfterDisconnect(Release(s1), c, "ok")

DisconnectEntry(s, c) ==
    LET s1 == [s EXCEPT !.ch[c].cleanup = TRUE]
    IN  IF LockFree(s1) THEN DisconnectBody([s1 EXCEPT !.lock = c], c)
        ELSE Enqueue(s1, c, "disc_lock")

\* Mutant of BodyRaise: update() passes the exception on without a finally block.
BodyRaiseNoCleanup(s, c, kind) ==
    CASE s.ch[c].op = "connect" -> Finish(s, c, kind)
      [] s.ch[c].op = "update" ->
            IF ShouldRetry(s, c, kind) THEN [s EXCEPT !.ch[c].pc = "sleep", !.ch[c].exc = kind]
            ELSE UpdateDone(s, c, kind)
      [] OTHER -> DisconnectEntry([s EXCEPT !.ch[c].exc = kind], c)

\* An exception of kind leaves the body of _read_char / _write_char (or of a
\* directly called connect()).
BodyRaise(s, c, kind) ==
    CASE s.ch[c].op = "connect" -> Finish(s, c, kind)
      [] s.ch[c].op = "update" ->
            IF ShouldRetry(s, c, kind) THEN [s EXCEPT !.ch[c].pc = "sleep", !.ch[c].exc = kind]
            ELSE DisconnectEntry([s EXCEPT !.ch[c].exc = kind], c)
      [] OTHER -> DisconnectEntry([s EXCEPT !.ch[c].exc = kind], c)

\* ---------------------------------------------------------- connect
\* self._client.read_gatt_char / write_gatt_char is called on the stored handle.
IssueIO(s, c) == [s EXCEPT !.ch[c].pc = "io", !.ch[c].hnd = s.client]

\* connect() has returned.
AfterConnect(s, c) ==
    IF s.ch[c].op = "connect" THEN Finish(s, c, "ok") ELSE IssueIO(s, c)

\* Mutant of ConnectBody: no recheck once the lock is held.
ConnectBodyNoRecheck(s, c) ==
    [s EXCEPT !.ch[c].pc = "conn_est", !.estSince = @ + 1]

\* connect() with the lock held: the recheck, then establish_connection.
ConnectBody(s, c) ==
    IF Live(s) THEN AfterConnect(Release(s), c)
    ELSE [s EXCEPT !.ch[c].pc = "conn_est", !.estSince = @ + 1]

ConnectEntry(s, c) ==
    IF Live(s) THEN AfterConnect(s, c)
    ELSE IF LockFree(s) THEN ConnectBody([s EXCEPT !.lock = c], c)
    ELSE Enqueue(s, c, "conn_lock")

\* The number of transport calls one attempt makes: the items of commands for
\* _write_char (every operation passes a one-item list), one read for _read_char.
Commands(s, c) == IF s.ch[c].op = "write_char" THEN s.ch[c].arg ELSE 1

\* One attempt of the decorated _read_char / _write_char body.
Attempt(s, c) ==
    ConnectEntry([s EXCEPT !.ch[c].attempt = @ + 1, !.ch[c].exc = "none",
                           !.ch[c].left = Commands(s, c)], c)

\* A call of _read_char(char) or _write_char(char, ...).
BeginChar(s, c, char) ==
    Attempt([s EXCEPT !.ch[c].char = char, !.ch[c].attempt = 0], c)

\* ---------------------------------------------------- update, writes
\* update() resumes with the bytes v of the characteristic it awaited.
ReadResult(s0, c, v) ==
    LET s == [s0 EXCEPT !.ch[c].left = 0]
    IN
    CASE s.ch[c].char = "model_id" ->
            BeginChar([s EXCEPT !.model_id = v], c, "manufacturer")
      [] s.ch[c].char = "manufacturer" ->
            BeginChar([s EXCEPT !.manufacturer = v], c, "serial_number")
      [] s.ch[c].char = "serial_number" ->
            BeginChar([s EXCEPT !.serial_number = v], c, "power")
      [] s.ch[c].char = "power" ->
            IF PowerDecodes(v)
            THEN BeginChar([s EXCEPT !.ch[c].power = v], c, "channel")
            ELSE DisconnectEntry([s EXCEPT !.ch[c].exc = "decode"], c)
      [] s.ch[c].char = "channel" ->
            BeginChar([s EXCEPT !.ch[c].channel = IntFromBytes(v)], c, "sw_version")
      [] OTHER -> DisconnectEntry([s EXCEPT !.ch[c].sw = v], c)

\* _write_char resumes after write_gatt_char: the loop goes on to the next
\* command, evaluating self._client anew (an AttributeError when it is None);
\* after the last command the finally block disconnects.
WriteResult(s, c) ==
    LET s1 == [s EXCEPT !.ch[c].left = @ - 1]
    IN  IF s1.ch[c].left > 0
        THEN IF s1.client = 0 THEN BodyRaise(s1, c, "attribute") ELSE IssueIO(s1, c)
        ELSE DisconnectEntry(s1, c)

\* What the transport may hand back to the I/O chain c awaits.
Replies(c) ==
    IF ch[c].op # "update" THEN {0}
    ELSE IF ch[c].char = "power" THEN DevPowerBytes
    ELSE IF ch[c].char = "channel" THEN DevChannelBytes
    ELSE DevTexts

\* Mutant of FirstChar: the identity is read on every update().
FirstCharAlwaysIdentity(s) == "model_id"

\* update(): the identity is read only while self._serial_number is None.
FirstChar(s) == IF s.serial_number = NoneText THEN "model_id" ELSE "power"

\* Mutant of ValidChannel: only the upper limit is checked.
ValidChannelUpperOnly(n) == ~(n > CHANNEL_NUM_MAX)

\* set_channel: the range check that precedes every transport call.
ValidChannel(n) == ~(n < CHANNEL_NUM_MIN \/ n > CHANNEL_NUM_MAX)

\* Mutant of IsOn: only the plain Awake value counts as on.
IsOnOnlyAwake(s) == s.state.power = AWAKE

\* The is_on property.
IsOn(s) == s.state.power \notin {STANDBY, SLEEPING}

\* ----------------------------------------------------------- actions
Running(c) == ch[c].pc # "idle"
Quiescent == \A d \in Chains : ~Running(d)

\* A call chain is one invocation: chain c is free when it has not been used,
\* and chains are used in order.
CanCall(c) ==
    /\ ch[c].op = "none"
    /\ \A d \in Chains : d < c => ch[d].op # "none"
    /\ serial => Quiescent

\* A chain whose call ended before the latest call began: nothing observes it.
Forgotten == [IdleChain EXCEPT !.op = "ended"]

\* An update() of another call chain is in flight and has read the power
\* characteristic already.
PeerHasRead(c) ==
    \E d \in Chains :
        d # c /\ ch[d].op = "update" /\ ch[d].pc # "idle" /\ ch[d].power # None

\* A call chain invokes an operation: fresh locals; the observation fields
\* record the snapshot at the call, whether the call runs undisturbed and
\* whether an update() in flight holds a power value read before the call.
Call(c, op, arg) ==
    [S EXCEPT !.ch = [d \in Chains |->
        IF d = c
        THEN [IdleChain EXCEPT !.op = op, !.arg = arg, !.state0 = state,
                               !.quiet = Quiescent, !.peerRead = PeerHasRead(c)]
        ELSE IF Running(d) THEN [ch[d] EXCEPT !.quiet = FALSE]
        ELSE IF ch[d].op = "none" THEN ch[d]
        ELSE Forgotten],
              !.unsub = NoUnsub]

Update(c) ==
    /\ CanCall(c)
    /\ LET s == Call(c, "update", None) IN Set(BeginChar(s, c, FirstChar(s)))
    /\ UNCHANGED <<issued, serial>>

SetPowerState(c, p) ==
    /\ CanCall(c)
    /\ Set(BeginChar(Call(c, "set_power_state", p), c, "power"))
    /\ UNCHANGED <<issued, serial>>

SetChannel(c, n) ==
    /\ CanCall(c)
    /\ LET s == Call(c, "set_channel", n)
       IN  Set(IF ValidChannel(n) THEN BeginChar(s, c, "channel")
               ELSE Finish(s, c, "invalid"))
    /\ UNCHANGED <<issued, serial>>

Identify(c) ==
    /\ CanCall(c)
    /\ Set(BeginChar(Call(c, "identify", None), c, "identify"))
    /\ UNCHANGED <<issued, serial>>

\* _write_char(char, commands, disconnect=True) with n commands.
WriteChar(c, n) ==
    /\ CanCall(c)
    /\ Set(BeginChar(Call(c, "write_char", n), c, "commands"))
    /\ UNCHANGED <<issued, serial>>

Connect(c) ==
    /\ CanCall(c)
    /\ Set(ConnectEntry(Call(c, "connect", None), c))
    /\ UNCHANGED <<issued, serial>>

Disconnect(c) ==
    /\ CanCall(c)
    /\ Set(DisconnectEntry(Call(c, "disconnect", None), c))
    /\ UNCHANGED <<issued, serial>>

\* The lock is handed to a chain suspended in lock.acquire().
LockGranted(c) ==
    /\ lock = c
    /\ ch[c].pc \in {"conn_lock", "disc_lock"}
    /\ Set(IF ch[c].pc = "conn_lock" THEN ConnectBody(S, c) ELSE DisconnectBody(S, c))
    /\ UNCHANGED <<issued, serial>>

InUse == connected \cup {client} \cup {ch[d].hnd : d \in Chains}

\* The least handle name nothing refers to any more.
NewHandle ==
    CHOOSE h \in Handles : h \notin InUse /\ \A g \in Handles : g < h => g \in InUse

\* establish_connection returns a connected client: it is stored, the lock released.
EstablishOK(c) ==
    /\ ch[c].pc = "conn_est"
    /\ LET h == NewHandle
           s1 == [S EXCEPT !.client = h, !.connected = @ \cup {h}]
       IN  Set(AfterConnect(Release(s1), c))
    /\ UNCHANGED <<issued, serial>>

Fault(s, c) == [s EXCEPT !.nFaults = @ + 1, !.ch[c].quiet = FALSE]

\* establish_connection raises.
EstablishFail(c, kind) ==
    /\ ch[c].pc = "conn_est"
    /\ nFaults < MaxFaults
    /\ Set(BodyRaise(Release([Fault(S, c) EXCEPT !.estSince = 0]), c, kind))
    /\ UNCHANGED <<issued, serial>>

\* read_gatt_char / write_gatt_char returns.
IOReturn(c) ==
    /\ ch[c].pc = "io"
    /\ ch[c].hnd \in connected
    /\ \E v \in Replies(c) :
          Set(IF ch[c].op = "update" THEN ReadResult(S, c, v) ELSE WriteResult(S, c))
    /\ UNCHANGED <<issued, serial>>

\* read_gatt_char of the power characteristic returns a value whose first byte is b.
IOReturnPower(c, b) ==
    /\ ch[c].pc = "io"
    /\ ch[c].hnd \in connected
    /\ ch[c].op = "update"
    /\ ch[c].char = "power"
    /\ Set(ReadResult(S, c, b))
    /\ UNCHANGED <<issued, serial>>

\* The I/O was issued on a handle whose link has gone since: a transient error.
IOLinkLost(c) ==
    /\ ch[c].pc = "io"
    /\ ch[c].hnd \notin connected
    /\ Set(BodyRaise([S EXCEPT !.ch[c].quiet = FALSE], c, "transient"))
    /\ UNCHANGED <<issued, serial>>

\* The I/O raises although the link is up.
IOFail(c, kind) ==
    /\ ch[c].pc = "io"
    /\ ch[c].hnd \in connected
    /\ kind = "transient" \/ nFaults < MaxFaults
    /\ Set(BodyRaise(IF kind = "transient" THEN [S EXCEPT !.ch[c].quiet = FALSE]
                     ELSE Fault(S, c), c, kind))
    /\ UNCHANGED <<issued, serial>>

\* asyncio.sleep of the retry decorator ends: the next attempt starts.
SleepDone(c) ==
    /\ ch[c].pc = "sleep"
    /\ Set(Attempt(S, c))
    /\ UNCHANGED <<issued, serial>>

\* client.disconnect() returns: the link is closed.
CloseOK(c) ==
    /\ ch[c].pc = "disc_close"
    /\ Set(AfterDisconnect(Release([S EXCEPT !.connected = @ \ {ch[c].hnd}]), c, "ok"))
    /\ UNCHANGED <<issued, serial>>

\* client.disconnect() raises and the link stays up.
CloseFail(c, kind) ==
    /\ ch[c].pc = "disc_close"
    /\ ch[c].hnd \in connected
    /\ nFaults < MaxFaults
    /\ Set(AfterDisconnect(Release(Fault(S, c)), c, kind))
    /\ UNCHANGED <<issued, serial>>

\* The radio link of a connection drops.
LinkDrop(h) ==
    /\ h \in connected
    /\ nFaults < MaxFaults
    /\ Set([S EXCEPT !.connected = @ \ {h},
                     !.nFaults = @ + 1,
                     !.estSince = IF h = client THEN 0 ELSE @,
                     !.ch = [d \in Chains |->
                               IF Running(d) THEN [ch[d] EXCEPT !.quiet = FALSE]
                               ELSE ch[d]]])
    /\ UNCHANGED <<issued, serial>>

\* The chain leaves the lock's wait queue (or passes on a lock just handed to it).
LeaveLock(s, c) ==
    IF s.lock = c THEN Release(s)
    ELSE [s EXCEPT !.waiters = SelectSeq(@, LAMBDA d : d # c)]

\* The coordinator's timeout cancels its update() at the await it is suspended
\* in. Cancelling the await of client.disconnect() leaves the link closed or not.
Cancel(c, closed) ==
    /\ ch[c].op = "update"
    /\ Running(c)
    /\ ch[c].exc # "cancelled"
    /\ nFaults < MaxFaults
    /\ closed \/ ch[c].pc = "disc_close"
    /\ LET s == Fault(S, c)
       IN  Set(CASE ch[c].pc = "conn_lock" -> BodyRaise(LeaveLock(s, c), c, "cancelled")
                 [] ch[c].pc = "conn_est" ->
                       BodyRaise(Release([s EXCEPT !.estSince = 0]), c, "cancelled")
                 [] ch[c].pc = "disc_lock" -> Finish(LeaveLock(s, c), c, "cancelled")
                 [] ch[c].pc = "disc_close" ->
                       Finish(Release([s EXCEPT !.connected =
                                          IF closed THEN @ \ {ch[c].hnd} ELSE @]),
                              c, "cancelled")
                 [] OTHER -> BodyRaise(s, c, "cancelled"))
    /\ UNCHANGED <<issued, serial>>

\* register_callback(fn): appends, returns the unsubscribe handle.
RegisterCallback(f) ==
    /\ Quiescent
    /\ Len(issued) < MaxRegs
    /\ callbacks' = Append(callbacks, [fn |-> f, reg |-> Len(issued) + 1])
    /\ issued' = Append(issued, f)
    /\ unsub' = NoUnsub
    /\ UNCHANGED <<client, lock, waiters, state, model_id, manufacturer, serial_number,
                   connected, ch, estSince, serial, nFaults>>

\* The unsubscribe handle of registration k is called:
\* self._callbacks.remove(callback), a ValueError when no entry equals callback.
UnregisterCallback(k) ==
    /\ Quiescent
    /\ k \in 1..Len(issued)
    /\ callbacks' = IF HasFn(callbacks, issued[k]) THEN RemoveFirst(callbacks, issued[k])
                    ELSE callbacks
    /\ unsub' = [reg |-> k, before |-> callbacks, raised |-> ~HasFn(callbacks, issued[k])]
    /\ UNCHANGED <<client, lock, waiters, state, model_id, manufacturer, serial_number,
                   connected, ch, issued, estSince, serial, nFaults>>

\* The session after __init__.
Fresh ==
    /\ client = 0
    /\ lock = 0
    /\ waiters = <<>>
    /\ callbacks = <<>>
    /\ state = EmptyState
    /\ model_id = NoneText
    /\ manufacturer = NoneText
    /\ serial_number = NoneText
    /\ connected = {}
    /\ ch = [c \in Chains |-> IdleChain]
    /\ issued = <<>>
    /\ unsub = NoUnsub
    /\ estSince = 0
    /\ nFaults = 0

Init == Fresh /\ serial = FALSE

InitSerial == Fresh /\ serial = TRUE

\* Call chains that overlap freely, every transport fault, cancellation.
Next ==
    \/ \E c \in Chains : Update(c)
    \/ \E c \in Chains, p \in PowerArgs : SetPowerState(c, p)
    \/ \E c \in Chains, n \in ChannelArgs : SetChannel(c, n)
    \/ \E c \in Chains : Identify(c)
    \/ \E c \in Chains : Connect(c)
    \/ \E c \in Chains : Disconnect(c)
    \/ \E c \in Chains : LockGranted(c)
    \/ \E c \in Chains : EstablishOK(c)
    \/ \E c \in Chains, k \in ErrKinds : EstablishFail(c, k)
    \/ \E c \in Chains : IOReturn(c)
    \/ \E c \in Chains : IOLinkLost(c)
    \/ \E c \in Chains, k \in ErrKinds : IOFail(c, k)
    \/ \E c \in Chains : SleepDone(c)
    \/ \E c \in Chains : CloseOK(c)
    \/ \E c \in Chains, k \in ErrKinds : CloseFail(c, k)
    \/ \E h \in Handles : LinkDrop(h)
    \/ \E c \in Chains, closed \in BOOLEAN : Cancel(c, closed)

\* One call at a time, with subscribers: update and the write operations,
\* the transport calls failing or not.
NextNotify ==
    \/ \E c \in Chains : Update(c)
    \/ \E c \in Chains, p \in PowerArgs : SetPowerState(c, p)
    \/ \E c \in Chains, n \in ChannelArgs : SetChannel(c, n)
    \/ \E c \in Chains : Identify(c)
    \/ \E c \in Chains : EstablishOK(c)
    \/ \E c \in Chains, k \in ErrKinds : EstablishFail(c, k)
    \/ \E c \in Chains : IOReturn(c)
    \/ \E c \in Chains, k \in ErrKinds : IOFail(c, k)
    \/ \E c \in Chains : SleepDone(c)
    \/ \E c \in Chains : CloseOK(c)
    \/ \E c \in Chains, k \in ErrKinds : CloseFail(c, k)
    \/ \E f \in Fns : RegisterCallback(f)
    \/ \E k \in 1..MaxRegs : UnregisterCallback(k)

\* One call at a time: every channel argument, after any cached power.
NextChannel ==
    \/ \E c \in Chains : Update(c)
    \/ \E c \in Chains, p \in PowerArgs : SetPowerState(c, p)
    \/ \E c \in Chains, n \in AllChannelArgs : SetChannel(c, n)
    \/ \E c \in Chains : EstablishOK(c)
    \/ \E c \in Chains : IOReturn(c)
    \/ \E c \in Chains, k \in ErrKinds : IOFail(c, k)
    \/ \E c \in Chains : SleepDone(c)
    \/ \E c \in Chains : CloseOK(c)

\* One call at a time: every power byte the device may report, every power
\* argument.
NextPower ==
    \/ \E c \in Chains : Update(c)
    \/ \E c \in Chains, p \in PowerMembers : SetPowerState(c, p)
    \/ \E c \in Chains : Identify(c)
    \/ \E c \in Chains : EstablishOK(c)
    \/ \E c \in Chains : IOReturn(c)
    \/ \E c \in Chains, b \in AllPowerBytes : IOReturnPower(c, b)
    \/ \E c \in Chains : CloseOK(c)

\* _write_char with one or several commands, overlapping with connect() and
\* disconnect() of another call chain.
NextCommands ==
    \/ \E c \in Chains, n \in CommandCounts : WriteChar(c, n)
    \/ \E c \in Chains : Connect(c)
    \/ \E c \in Chains : Disconnect(c)
    \/ \E c \in Chains : LockGranted(c)
    \/ \E c \in Chains : EstablishOK(c)
    \/ \E c \in Chains : IOReturn(c)
    \/ \E c \in Chains : IOLinkLost(c)
    \/ \E c \in Chains : SleepDone(c)
    \/ \E c \in Chains : CloseOK(c)

Spec == Init /\ [][Next]_vars

\* What the event loop and the transport do for call chain c once it is
\* suspended: grant the lock, end the retry wait, return from a transport call.
Resume(c) ==
    \/ LockGranted(c)
    \/ EstablishOK(c)
    \/ IOReturn(c)
    \/ IOLinkLost(c)
    \/ SleepDone(c)
    \/ CloseOK(c)

\* Overlapping call chains of every operation; each transport call returns
\* or raises.
NextLive ==
    \/ \E c \in Chains : Update(c)
    \/ \E c \in Chains : SetPowerState(c, SLEEPING)
    \/ \E c \in Chains : SetChannel(c, CHANNEL_NUM_MIN)
    \/ \E c \in Chains : Identify(c)
    \/ \E c \in Chains : Connect(c)
    \/ \E c \in Chains : Disconnect(c)
    \/ \E c \in Chains : LockGranted(c)
    \/ \E c \in Chains : EstablishOK(c)
    \/ \E c \in Chains, k \in ErrKinds : EstablishFail(c, k)
    \/ \E c \in Chains : IOReturn(c)
    \/ \E c \in Chains : IOLinkLost(c)
    \/ \E c \in Chains : IOFail(c, "fatal")
    \/ \E c \in Chains : SleepDone(c)
    \/ \E c \in Chains : CloseOK(c)
    \/ \E c \in Chains, k \in ErrKinds : CloseFail(c, k)

\* Every suspended call chain is resumed eventually: each transport call
\* returns or raises, the event loop runs every chain that is ready.
SpecLive == Init /\ [][NextLive]_vars /\ \A c \in Chains : WF_vars(Resume(c))

SpecPower == InitSerial /\ [][NextPower]_vars

SpecCommands == Init /\ [][NextCommands]_vars

SpecChannel == InitSerial /\ [][NextChannel]_vars

SpecNotify == InitSerial /\ [][NextNotify]_vars

\* =============================================================== claims
\* The call of chain c has ended and nothing was called after it.
Ended(c) == ch[c].op \notin {"none", "ended"} /\ ~Running(c)

ConnectReturned(c) == ch[c].op = "connect" /\ Ended(c) /\ ch[c].result = "ok"

RegsOf(seq) == [i \in 1..Len(seq) |-> seq[i].reg]
FnsOf(seq) == [i \in 1..Len(seq) |-> seq[i].fn]
Times(seq, r) == Cardinality({i \in 1..Len(seq) : seq[i].reg = r})
\* The list without the registration r, the others in their order.
WithoutReg(seq, r) == SelectSeq(seq, LAMBDA e : e.reg # r)

\* C1: establish_connection is never called twice while the session has not
\* lost its connection in between; and when two call chains were in connect()
\* at the same time on a session without a live connection, with no transport
\* fault, then once both have returned establish_connection was called exactly
\* once and the stored handle is live.
C1_ConcurrentConnectOnce ==
    /\ estSince <= 1
    /\ \A a \in Chains, b \in Chains :
          (a # b /\ ConnectReturned(a) /\ ConnectReturned(b) /\ nFaults = 0)
             => (estSince = 1 /\ Live(S))

C1_Witness ==
    \E a \in Chains, b \in Chains :
        a # b /\ ConnectReturned(a) /\ ConnectReturned(b) /\ nFaults = 0
              /\ estSince = 1 /\ Live(S)

\* C2: at most one connection is live, and a live connection is the stored
\* handle (the handle a disconnect() holding the lock is closing is not
\* counted against the claim).
C2_SingleOwnedConnection ==
    /\ Cardinality(connected) <= 1
    /\ \A h \in connected :
          h = client \/ \E c \in Chains : ch[c].pc = "disc_close" /\ ch[c].hnd = h

\* C3: an update() that fails decoding the power byte replaces no snapshot;
\* when it ran alone and without transport fault the cached snapshot is the
\* one from before the call and the transport's disconnect was called exactly
\* once.
C3_DecodeFailureKeepsState ==
    \A c \in Chains :
        (ch[c].op = "update" /\ Ended(c) /\ ch[c].result = "decode")
           => /\ ch[c].commits = 0
              /\ ch[c].quiet => (state = ch[c].state0 /\ ch[c].closes = 1)

C3_Witness ==
    \E c \in Chains :
        /\ ch[c].op = "update" /\ Ended(c) /\ ch[c].result = "decode"
        /\ ch[c].quiet
        /\ ch[c].state0 # EmptyState
        /\ state = ch[c].state0

IdentityAllOrNothing ==
    /\ (model_id = NoneText) = (serial_number = NoneText)
    /\ (manufacturer = NoneText) = (serial_number = NoneText)

\* C4: after an update() that failed, with nothing else in flight, the
\* identity fields are all set or all unset.
C4_FailedUpdateKeepsIdentity ==
    \A c \in Chains :
        (ch[c].op = "update" /\ Ended(c) /\ ch[c].result # "ok" /\ Quiescent)
           => IdentityAllOrNothing

\* C5: a write operation that raised a transport error left the cached
\* snapshot as it was at the call, replaced nothing and invoked no subscriber.
C5_FailedWriteNoEffect ==
    \A c \in Chains :
        (ch[c].op \in WriteOps /\ Ended(c) /\ ch[c].result \in ErrKinds)
           => /\ state = ch[c].state0
              /\ ch[c].commits = 0
              /\ ~ch[c].fired
              /\ ch[c].notified = <<>>

C5_Witness ==
    \E c \in Chains :
        /\ ch[c].op \in WriteOps /\ Ended(c) /\ ch[c].result = "transient"
        /\ callbacks # <<>>
        /\ state = ch[c].state0

\* C6: every operation that replaced the snapshot invoked every subscriber
\* registered at that moment, in registration order, with the new snapshot.
C6_EveryReplacementNotifies ==
    \A c \in Chains :
        (Ended(c) /\ ch[c].commits > 0)
           => /\ RegsOf(ch[c].notified) = RegsOf(ch[c].regs0)
              /\ \A i \in 1..Len(ch[c].notified) : ch[c].notified[i].snap = state

\* C7: when a subscriber unsubscribed during a dispatch, every subscriber that
\* stayed registered was invoked exactly once in that dispatch.
C7_UnsubscribeDuringDispatch ==
    \A c \in Chains :
        (ch[c].fired /\ \E i \in 1..Len(ch[c].regs0) : ch[c].regs0[i].fn = "once")
           => \A i \in 1..Len(ch[c].regs0) :
                 ch[c].regs0[i].fn = "observer"
                    => Times(ch[c].notified, ch[c].regs0[i].reg) = 1

\* C8: after an unsubscribe handle was called, the list holds the functions it
\* held before without that handle's registration, in the same order.
C8_UnsubscribeExact ==
    unsub.reg # 0 => FnsOf(callbacks) = FnsOf(WithoutReg(unsub.before, unsub.reg))

\* C9: a successful write operation invoked every registration of the list
\* exactly once, and nothing else, each with the snapshot the write left.
C9_SubscriberInvokedOncePerWrite ==
    \A c \in Chains :
        (ch[c].op \in WriteOps /\ Ended(c) /\ ch[c].result = "ok")
           => /\ \A i \in 1..Len(ch[c].regs0) :
                    Times(ch[c].notified, ch[c].regs0[i].reg) = 1
              /\ Len(ch[c].notified) = Len(ch[c].regs0)
              /\ \A i \in 1..Len(ch[c].notified) : ch[c].notified[i].snap = state
              /\ ch[c].op = "set_power_state" => state.power = ch[c].arg

\* C10: a set_channel(n) that returned was called with n in 1..16 and leaves
\* the cached channel n and the cached power Awake.
C10_SetChannelResult ==
    \A c \in Chains :
        (ch[c].op = "set_channel" /\ Ended(c) /\ ch[c].result = "ok")
           => /\ ch[c].arg \in CHANNEL_NUM_MIN..CHANNEL_NUM_MAX
              /\ state.channel = ch[c].arg
              /\ state.power = AWAKE

C10_Witness ==
    \E c \in Chains :
        /\ ch[c].op = "set_channel" /\ Ended(c) /\ ch[c].result = "ok"
        /\ ch[c].arg \notin {CHANNEL_NUM_MIN, CHANNEL_NUM_MAX}
        /\ ch[c].state0.power = STANDBY
        /\ state.channel = ch[c].arg /\ state.power = AWAKE

\* C11: a call of set_channel(n) with n outside 1..16 ends in the step that
\* makes it, with the validation error: it suspends at no transport call,
\* it leaves the stored handle, the lock, the connections, the cached snapshot,
\* the identity and the subscriber list as they were and invokes no subscriber.
C11_InvalidChannelRejected ==
    [][\A c \in Chains :
          (ch[c].op = "none" /\ ch'[c].op = "set_channel"
              /\ ch'[c].arg \notin CHANNEL_NUM_MIN..CHANNEL_NUM_MAX)
             => /\ ch'[c].pc = "idle"
                /\ ch'[c].result = "invalid"
                /\ ch'[c].attempt = 0 /\ ch'[c].closes = 0 /\ ~ch'[c].cleanup
                /\ ch'[c].commits = 0 /\ ~ch'[c].fired /\ ch'[c].notified = <<>>
                /\ UNCHANGED <<client, lock, waiters, connected, estSince, state,
                               callbacks, model_id, manufacturer, serial_number>>]_vars

C11_Witness ==
    \E c \in Chains :
        /\ ch[c].op = "set_channel" /\ Ended(c) /\ ch[c].result = "invalid"
        /\ ch[c].arg = CHANNEL_NUM_MAX + 1
        /\ callbacks # <<>>
        /\ state # EmptyState /\ state = ch[c].state0
        /\ client = 0 /\ connected = {}

IdentityChars == {"model_id", "manufacturer", "serial_number"}

\* Chain c is in an update() that is reading an identity characteristic.
ReadsIdentity(c) == ch[c].op = "update" /\ Running(c) /\ ch[c].char \in IdentityChars

\* C12: the cached serial number, once set, stays; an update() gets to read an
\* identity characteristic only by being called while the serial number is not
\* cached; an update() called once it is cached begins with the power read.
C12_NoIdentityReread ==
    [][/\ serial_number # NoneText => serial_number' = serial_number
       /\ \A c \in Chains :
             /\ ReadsIdentity(c)'
                   => (ReadsIdentity(c) \/ (ch[c].op = "none" /\ serial_number = NoneText))
             /\ (ch[c].op = "none" /\ ch'[c].op = "update" /\ serial_number # NoneText)
                   => (ch'[c].char = "power" /\ ch'[c].attempt = 1)]_vars

C12_Witness ==
    \E c \in Chains :
        /\ ch[c].op = "update" /\ ch[c].pc = "io" /\ ch[c].char = "sw_version"
        /\ ch[c].state0.sw_version # NoneText
        /\ serial_number # NoneText /\ model_id # NoneText /\ manufacturer # NoneText

\* Chain c's attempt reaches the transport call on the live stored handle, or
\* is inside connect() on the way to it.
InConnectPath(c) ==
    \/ ch[c].pc \in {"conn_lock", "conn_est"}
    \/ ch[c].pc = "io" /\ ch[c].hnd = client /\ client \in connected

Operations == WriteOps \cup {"update"}

\* C14: whenever an update or write operation has ended and no operation is in
\* flight, the session stores no handle and none of its connections is live.
C14_NoIdleConnection ==
    (Quiescent /\ \E c \in Chains : Ended(c) /\ ch[c].op \in Operations)
       => (client = 0 /\ connected = {})

\* C15: an update() that ended cancelled replaced no snapshot and entered
\* disconnect() before it ended; when no other operation replaced the snapshot
\* meanwhile, the cached snapshot is the one from before the call.
C15_CancelledUpdate ==
    \A c \in Chains :
        (ch[c].op = "update" /\ Ended(c) /\ ch[c].result = "cancelled")
           => /\ ch[c].commits = 0
              /\ ch[c].cleanup
              /\ (\A d \in Chains : d # c => ch[d].commits = 0) => state = ch[c].state0

C15_Witness ==
    \E c \in Chains :
        /\ ch[c].op = "update" /\ Ended(c) /\ ch[c].result = "cancelled"
        /\ ch[c].state0.sw_version # NoneText
        /\ state = ch[c].state0
        /\ ch[c].cleanup /\ ch[c].closes = 1

\* C16: is_on is false when the cached power is Standby or Sleeping, true when
\* it is Awake, AwakeAfterSleeping or AwakeAfterStandby, and false for no other
\* cached power.
C16_IsOn ==
    /\ state.power \in {STANDBY, SLEEPING} => ~IsOn(S)
    /\ state.power \in {AWAKE, AWAKE_AFTER_SLEEPING, AWAKE_AFTER_STANDBY} => IsOn(S)
    /\ ~IsOn(S) => state.power \in {STANDBY, SLEEPING}

C16_Witness ==
    \E c \in Chains :
        /\ ch[c].op = "update" /\ Ended(c) /\ ch[c].result = "ok"
        /\ ch[c].state0.power = SLEEPING
        /\ state.power = AWAKE_AFTER_SLEEPING
        /\ IsOn(S)

\* The step is one of the write operation of chain c, and of no update().
WriteStep(c) ==
    /\ ch'[c].op \in WriteOps
    /\ ch'[c] # ch[c]
    /\ \A d \in Chains : ch'[d].op = "update" => ch'[d] = ch[d]

\* C17: no step of a write operation changes the cached firmware version or
\* an identity field; set_power_state and identify leave the cached channel;
\* the snapshot changes only where the operation replaces it, and then the
\* power is the mode passed to set_power_state, Awake for the other two.
C17_WriteFrame ==
    [][\A c \in Chains :
          WriteStep(c)
             => /\ state'.sw_version = state.sw_version
                /\ UNCHANGED <<model_id, manufacturer, serial_number>>
                /\ ch'[c].op # "set_channel" => state'.channel = state.channel
                /\ state' # state => ch'[c].commits = ch[c].commits + 1
                /\ ch'[c].commits # ch[c].commits
                      => state'.power = IF ch'[c].op = "set_power_state"
                                        THEN ch'[c].arg ELSE AWAKE]_vars

C17_Witness ==
    \E c \in Chains :
        /\ ch[c].op = "identify" /\ Ended(c) /\ ch[c].result = "ok"
        /\ ch[c].state0.power = STANDBY
        /\ ch[c].state0.channel # None
        /\ ch[c].state0.sw_version # NoneText
        /\ state = [ch[c].state0 EXCEPT !.power = AWAKE]
        /\ serial_number # NoneText

\* C18: while no update() has cached the serial number (so none has completed
\* successfully), every field of the cached snapshot is unset.
C18_UnsetUntilFirstUpdate ==
    serial_number = NoneText => state = EmptyState

C20_ChannelInRange ==
    state.channel = None \/ state.channel \in CHANNEL_NUM_MIN..CHANNEL_NUM_MAX

\* The awaits made with the lock held: establish_connection and client.disconnect().
InLockedAwait(c) == ch[c].pc \in {"conn_est", "disc_close"}

\* C21: a call chain with a characteristic read or write in flight does not
\* hold the lock; a chain inside the locked part of connect() or disconnect()
\* holds it, so no two chains are there at once; a chain that holds the lock
\* is in one of those parts or about to resume into one.
C21_LockNotHeldAcrossIO ==
    \A c \in Chains :
        /\ ch[c].pc = "io" => lock # c
        /\ InLockedAwait(c) => lock = c
        /\ lock = c => (InLockedAwait(c) \/ ch[c].pc \in {"conn_lock", "disc_lock"})

C21_Witness ==
    \E a \in Chains, b \in Chains :
        /\ a # b
        /\ ch[a].pc = "io" /\ ch[b].pc = "io"
        /\ ch[a].hnd = ch[b].hnd /\ ch[a].hnd = client /\ client \in connected
        /\ lock = 0

\* The power a successful write operation leaves in the cache.
PowerWritten(c) == IF ch[c].op = "set_power_state" THEN ch[c].arg ELSE AWAKE

\* C22: when a write operation was called while an update() in flight had
\* already read the power characteristic, and both have completed
\* successfully, the cached power is the one the write set (and the cached
\* channel the one set_channel set), not the value read before the write.
C22_UpdateKeepsWrite ==
    \A w \in Chains, u \in Chains :
        (/\ w # u
         /\ ch[w].op \in WriteOps /\ Ended(w) /\ ch[w].result = "ok" /\ ch[w].peerRead
         /\ ch[u].op = "update" /\ Ended(u) /\ ch[u].result = "ok")
           => /\ state.power = PowerWritten(w)
              /\ ch[w].op = "set_channel" => state.channel = ch[w].arg

Waits(c) == \E i \in 1..Len(waiters) : waiters[i] = c

\* C23: every call that has begun ends; a chain that holds the lock gives it
\* up; a chain in the lock's wait queue is not its holder.
C23_EveryCallEnds ==
    /\ \A c \in Chains : Running(c) ~> ~Running(c)
    /\ \A c \in Chains : (lock = c) ~> (lock # c)
    /\ [](\A c \in Chains : Waits(c) => lock # c)

C23_Witness ==
    \E c \in Chains, d \in Chains :
        /\ c # d
        /\ Waits(c) /\ ch[c].pc = "disc_lock"
        /\ lock = d /\ ch[d].pc = "conn_est"

====
